---- MODULE Spec2Model ----
(***************************************************************************)
(* Model of the Orderbook event stream: Networking/python/sender.py (the   *)
(* client that packs mock events and writes them to a TCP connection) and  *)
(* Networking/python/receiver.py (the server that reads the connection and *)
(* unpacks what it receives).                                              *)
(*                                                                         *)
(* Python values are records tagged with their type, byte strings are      *)
(* sequences of numbers 0..255, and an operation that can raise returns a  *)
(* record [exc, val] whose exc is "none" or the exception's name.          *)
(***************************************************************************)
EXTENDS Integers, Sequences, FiniteSets, TLC

\* ------------------------------------------------------------------------
\* Bounds of the model
\* ------------------------------------------------------------------------

\* How many iterations of the sender loop (while True) are explored.
MaxIter == 3

\* How many writes a client other than sender.py performs on the connection.
MaxWrites == 2

\* How many pushes of the monitor are explored, over all calls of leos_func.
MaxPushes == 5

\* ------------------------------------------------------------------------
\* Python values
\* ------------------------------------------------------------------------

PyInt(n) == [kind |-> "int", val |-> n]

\* A str: its characters' codes (all the mock data is ASCII).
PyStr(cs) == [kind |-> "str", val |-> cs]

PyBytes(bs) == [kind |-> "bytes", val |-> bs]

\* A float: the big-endian bytes of the nearest IEEE-754 single, and whether
\* the value is that single exactly (172.34 is not; 528.75 is).
PyFloat(bs, isExact) == [kind |-> "float", f32 |-> bs, exact |-> isExact]

PyTuple(xs) == [kind |-> "tuple", val |-> xs]

None == [kind |-> "None"]

\* floor(log2(m)) for m >= 1, and 2^k.
RECURSIVE Log2(_)
Log2(m) == IF m < 2 THEN 0 ELSE 1 + Log2(m \div 2)

RECURSIVE Pow2(_)
Pow2(k) == IF k = 0 THEN 1 ELSE 2 * Pow2(k - 1)

\* The float an int of 32 bits converts to, as a single: sign, biased
\* exponent and the 23 bits after the leading one, rounded to nearest, ties
\* to even.
FloatOfInt(n) ==
  IF n = 0 THEN PyFloat(<<0, 0, 0, 0>>, TRUE)
  ELSE IF n = -2147483647 - 1 THEN PyFloat(<<207, 0, 0, 0>>, TRUE)
  ELSE LET sign == IF n < 0 THEN 1 ELSE 0
           m == IF n < 0 THEN 0 - n ELSE n
           e == Log2(m)
           s == e - 23
           q0 == IF s <= 0 THEN m * Pow2(0 - s) ELSE m \div Pow2(s)
           r == IF s <= 0 THEN 0 ELSE m % Pow2(s)
           up == s > 0 /\ (2 * r > Pow2(s) \/ (2 * r = Pow2(s) /\ q0 % 2 = 1))
           q1 == IF up THEN q0 + 1 ELSE q0
           carry == q1 = 16777216
           q == IF carry THEN 8388608 ELSE q1
           ex == (IF carry THEN e + 1 ELSE e) + 127
           mant == q - 8388608
       IN PyFloat(<< sign * 128 + ex \div 2, (ex % 2) * 128 + mant \div 65536,
                     (mant \div 256) % 256, mant % 256 >>, r = 0)

\* Python's == between two values. Values of different types are unequal (a
\* tuple or a bytes never equals an int), but for an int and a float, which
\* compare by value; tuples compare item by item.
RECURSIVE PyEq(_, _)
PyEq(a, b) ==
  IF a.kind = b.kind
  THEN IF a.kind = "tuple"
       THEN /\ Len(a.val) = Len(b.val)
            /\ \A i \in 1..Len(a.val) : PyEq(a.val[i], b.val[i])
       ELSE a = b
  ELSE IF a.kind = "int" /\ b.kind = "float" THEN b.exact /\ FloatOfInt(a.val) = b
  ELSE IF a.kind = "float" /\ b.kind = "int" THEN a.exact /\ FloatOfInt(b.val) = a
  ELSE FALSE

Ok(v) == [exc |-> "none", val |-> v]

Raise(e) == [exc |-> e, val |-> None]

\* ------------------------------------------------------------------------
\* The struct module: format strings, calcsize, pack, unpack, unpack_from
\* ------------------------------------------------------------------------

\* One item of a format string: a format character and its repeat count.
Item(c, n) == [code |-> c, count |-> n]

\* The format strings of the two programs, all with the '!' prefix (network
\* byte order, standard sizes, no alignment).
Fmt_B == <<Item("B", 1)>>
Fmt_B3s == <<Item("B", 1), Item("s", 3)>>
Fmt_Bssisf == <<Item("B", 1), Item("s", 1), Item("s", 1), Item("i", 1), Item("s", 1), Item("f", 1)>>
Fmt_Bssff == <<Item("B", 1), Item("s", 1), Item("s", 1), Item("f", 1), Item("f", 1)>>
Fmt_3s == <<Item("s", 3)>>
Fmt_ssisf == <<Item("s", 1), Item("s", 1), Item("i", 1), Item("s", 1), Item("f", 1)>>
Fmt_ssff == <<Item("s", 1), Item("s", 1), Item("f", 1), Item("f", 1)>>

\* Bytes one item occupies: 's' takes its count, the others their standard size.
ItemSize(it) ==
  CASE it.code = "B" -> 1
    [] it.code = "s" -> it.count
    [] it.code = "i" -> 4
    [] it.code = "f" -> 4

RECURSIVE calcsize(_)
calcsize(fmt) ==
  IF fmt = <<>> THEN 0 ELSE ItemSize(Head(fmt)) + calcsize(Tail(fmt))

Max2(a, b) == IF a >= b THEN a ELSE b

Min2(a, b) == IF a <= b THEN a ELSE b

\* The first n elements of s, the rest of s from element n+1 on.
Take(s, n) == SubSeq(s, 1, Min2(n, Len(s)))

Drop(s, n) == SubSeq(s, n + 1, Len(s))

\* n zero bytes.
Zeros(n) == [i \in 1..n |-> 0]

\* The four big-endian bytes of a non-negative number below 2^31.
BE32(u) == << u \div 16777216, (u \div 65536) % 256, (u \div 256) % 256, u % 256 >>

\* 'i': a signed 32-bit integer, two's complement, big-endian.
PackI(v) ==
  IF v >= 0 THEN BE32(v)
  ELSE LET n == BE32(0 - (v + 1)) IN << 255 - n[1], 255 - n[2], 255 - n[3], 255 - n[4] >>

UnpackI(b) ==
  IF b[1] < 128 THEN b[1] * 16777216 + b[2] * 65536 + b[3] * 256 + b[4]
  ELSE 0 - ((255 - b[1]) * 16777216 + (255 - b[2]) * 65536 + (255 - b[3]) * 256 + (255 - b[4])) - 1

\* 's' with count n: the first n bytes, padded with zero bytes to n.
PackS(bs, n) == Take(bs, n) \o Zeros(n - Min2(n, Len(bs)))

\* PackItem as it would be if 's' took a str as well and packed its characters.
PackItemStrAccepted(it, v) ==
  CASE it.code = "B" ->
         IF v.kind = "int" /\ v.val >= 0 /\ v.val <= 255 THEN Ok(<<v.val>>)
         ELSE Raise("struct.error")
    [] it.code = "s" ->
         IF v.kind \in {"bytes", "str"} THEN Ok(PackS(v.val, it.count))
         ELSE Raise("struct.error")
    [] it.code = "i" ->
         IF v.kind = "int" /\ v.val >= -2147483647 - 1 /\ v.val <= 2147483647
         THEN Ok(PackI(v.val))
         ELSE Raise("struct.error")
    [] it.code = "f" ->
         IF v.kind = "float" THEN Ok(v.f32)
         ELSE IF v.kind = "int" THEN Ok(FloatOfInt(v.val).f32)
         ELSE Raise("struct.error")

\* Packing one value under one format item. struct.error when the value has
\* the wrong type (a str where 's' wants bytes) or is out of range. 'f' takes
\* any number, an int included.
PackItem(it, v) ==
  CASE it.code = "B" ->
         IF v.kind = "int" /\ v.val >= 0 /\ v.val <= 255 THEN Ok(<<v.val>>)
         ELSE Raise("struct.error")
    [] it.code = "s" ->
         IF v.kind = "bytes" THEN Ok(PackS(v.val, it.count))
         ELSE Raise("struct.error")
    [] it.code = "i" ->
         IF v.kind = "int" /\ v.val >= -2147483647 - 1 /\ v.val <= 2147483647
         THEN Ok(PackI(v.val))
         ELSE Raise("struct.error")
    [] it.code = "f" ->
         IF v.kind = "float" THEN Ok(v.f32)
         ELSE IF v.kind = "int" THEN Ok(FloatOfInt(v.val).f32)
         ELSE Raise("struct.error")

RECURSIVE PackItems(_, _)
PackItems(fmt, args) ==
  IF fmt = <<>> THEN Ok(<<>>)
  ELSE LET h == PackItem(Head(fmt), Head(args)) IN
       IF h.exc # "none" THEN h
       ELSE LET t == PackItems(Tail(fmt), Tail(args)) IN
            IF t.exc # "none" THEN t ELSE Ok(h.val \o t.val)

\* struct.pack(fmt, *args): the number of arguments must be the number of
\* items of the format, then each is packed in turn.
StructPack(fmt, args) ==
  IF Len(args) # Len(fmt) THEN Raise("struct.error")
  ELSE PackItems(fmt, args)

UnpackItem(it, b) ==
  CASE it.code = "B" -> PyInt(b[1])
    [] it.code = "s" -> PyBytes(b)
    [] it.code = "i" -> PyInt(UnpackI(b))
    [] it.code = "f" -> PyFloat(b, TRUE)

RECURSIVE UnpackItems(_, _)
UnpackItems(fmt, b) ==
  IF fmt = <<>> THEN <<>>
  ELSE LET n == ItemSize(Head(fmt)) IN
       <<UnpackItem(Head(fmt), Take(b, n))>> \o UnpackItems(Tail(fmt), Drop(b, n))

\* struct.unpack(fmt, buffer): the buffer must be exactly calcsize(fmt) long.
StructUnpack(fmt, b) ==
  IF Len(b) # calcsize(fmt) THEN Raise("struct.error")
  ELSE Ok(PyTuple(UnpackItems(fmt, b)))

\* struct.unpack_from(fmt, buffer, offset): the buffer must hold calcsize(fmt)
\* bytes from the offset on; what follows them is ignored.
StructUnpackFrom(fmt, b, offset) ==
  IF Len(b) - offset < calcsize(fmt) THEN Raise("struct.error")
  ELSE Ok(PyTuple(UnpackItems(fmt, Take(Drop(b, offset), calcsize(fmt)))))

\* data[i] on a tuple (i counted from 0): IndexError past its end.
TupleGet(t, i) ==
  IF i < Len(t.val) THEN Ok(t.val[i + 1]) ELSE Raise("IndexError")

\* ------------------------------------------------------------------------
\* sender.py: the mock data and the tag tables
\* ------------------------------------------------------------------------

mock_data == <<
  \* {"type":"price_update","symbol":"BTC/USD","old_price":67203.00,"new_price":67210.50}
  [type |-> "price_update",
   symbol |-> PyStr(<<66,84,67,47,85,83,68>>),
   old_price |-> PyFloat(<<71,131,65,128>>, TRUE),
   new_price |-> PyFloat(<<71,131,69,64>>, TRUE)],
  \* {"type":"price_update","symbol":"ETH/USD","old_price":3212.45,"new_price":3217.10}
  [type |-> "price_update",
   symbol |-> PyStr(<<69,84,72,47,85,83,68>>),
   old_price |-> PyFloat(<<69,72,199,51>>, FALSE),
   new_price |-> PyFloat(<<69,73,17,154>>, FALSE)],
  \* {"type":"price_update","symbol":"SPY","old_price":528.75,"new_price":529.00}
  [type |-> "price_update",
   symbol |-> PyStr(<<83,80,89>>),
   old_price |-> PyFloat(<<68,4,48,0>>, TRUE),
   new_price |-> PyFloat(<<68,4,64,0>>, TRUE)],
  \* {"type":"match","side":"BUY","quantity":100,"symbol":"AAPL","price":172.34}
  [type |-> "match",
   side |-> PyStr(<<66,85,89>>),
   quantity |-> PyInt(100),
   symbol |-> PyStr(<<65,65,80,76>>),
   price |-> PyFloat(<<67,44,87,10>>, FALSE)],
  \* {"type":"match","side":"SELL","quantity":5,"symbol":"BTC","price":67200.00}
  [type |-> "match",
   side |-> PyStr(<<83,69,76,76>>),
   quantity |-> PyInt(5),
   symbol |-> PyStr(<<66,84,67>>),
   price |-> PyFloat(<<71,131,64,0>>, TRUE)],
  \* {"type":"match","side":"BUY","quantity":50,"symbol":"TSLA","price":187.90}
  [type |-> "match",
   side |-> PyStr(<<66,85,89>>),
   quantity |-> PyInt(50),
   symbol |-> PyStr(<<84,83,76,65>>),
   price |-> PyFloat(<<67,59,230,102>>, FALSE)],
  \* {"type":"log","level":"INFO","message":"TCP server started on port 9001"}
  [type |-> "log",
   level |-> PyStr(<<73,78,70,79>>),
   message |-> PyStr(<<84,67,80,32,115,101,114,118,101,114,32,115,116,97,114,116,101,100,32,111,110,32,112,111,114,116,32,57,48,48,49>>)],
  \* {"type":"log","level":"DEBUG","message":"Received order: ID#14352 (BUY 25 ETH @ $3,200)"}
  [type |-> "log",
   level |-> PyStr(<<68,69,66,85,71>>),
   message |-> PyStr(<<82,101,99,101,105,118,101,100,32,111,114,100,101,114,58,32,73,68,35,49,52,51,53,50,32,40,66,85,89,32,50,53,32,69,84,72,32,64,32,36,51,44,50,48,48,41>>)],
  \* {"type":"log","level":"INFO","message":"Trade executed: Order#14352 matched with Order#14349"}
  [type |-> "log",
   level |-> PyStr(<<73,78,70,79>>),
   message |-> PyStr(<<84,114,97,100,101,32,101,120,101,99,117,116,101,100,58,32,79,114,100,101,114,35,49,52,51,53,50,32,109,97,116,99,104,101,100,32,119,105,116,104,32,79,114,100,101,114,35,49,52,51,52,57>>)]
>>

\* The characters of "log", "match" and "price_update".
LogTypeChars(t) ==
  CASE t = "log" -> <<108,111,103>>
    [] t = "match" -> <<109,97,116,99,104>>
    [] t = "price_update" -> <<112,114,105,99,101,95,117,112,100,97,116,101>>

num_to_log_types == (1 :> "log") @@ (2 :> "match") @@ (3 :> "price_update")

log_type_to_num == [t \in {"log", "match", "price_update"} |->
                      CASE t = "log" -> 1 [] t = "match" -> 2 [] t = "price_update" -> 3]

\* The format string of the pack whose first argument is tag.
SenderLayout(tag) ==
  CASE tag = 1 -> Fmt_B3s
    [] tag = 2 -> Fmt_Bssisf
    [] tag = 3 -> Fmt_Bssff

\* The arguments of the pack of event e after the format: the tag, log_type,
\* then the fields of the event.
PackArgs(e) ==
  CASE e.type = "log" ->
         <<PyInt(1), PyStr(LogTypeChars("log")), e.level, e.message>>
    [] e.type = "match" ->
         <<PyInt(2), PyStr(LogTypeChars("match")), e.side, e.quantity, e.symbol, e.price>>
    [] e.type = "price_update" ->
         <<PyInt(3), PyStr(LogTypeChars("price_update")), e.symbol, e.old_price, e.new_price>>

\* The three packing branches of the sender loop: the struct.pack call made for
\* the chosen event. The text arguments are the str values of the mock data,
\* passed as they are.
PackEvent(e) == StructPack(SenderLayout(PackArgs(e)[1].val), PackArgs(e))

\* The local name buffer of the sender before its first assignment.
Unbound == [kind |-> "unbound"]

\* ------------------------------------------------------------------------
\* receiver.py: the formats, the read size, one iteration of the loop
\* ------------------------------------------------------------------------

log_format_str == Fmt_B3s

match_format_str == Fmt_Bssisf

price_update_format_str == Fmt_Bssff

log_buffer_size == calcsize(log_format_str)

match_buffer_size == calcsize(match_format_str)

price_update_buffer_size == calcsize(price_update_format_str)

buffer_size == Max2(log_buffer_size, Max2(match_buffer_size, price_update_buffer_size))

\* buffer.unpack("!B", buffer): buffer is the bytes object recv returned, and a
\* bytes object has no attribute unpack.
BufferUnpack(fmt, b) == Raise("AttributeError")

\* A line the receiver prints for a decoded event: the branch's tag and the
\* values the f-string reads, data[0] .. data[n-1].
EventLine(tag, vals) == [line |-> "event", tag |-> tag, vals |-> vals]

ErrorLine == [line |-> "error", text |-> "Error: log type is invalid."]

\* The print of a branch: it reads data[0] .. data[n-1] and fails with
\* IndexError when the tuple is shorter.
RECURSIVE ReadData(_, _, _)
ReadData(data, i, n) ==
  IF i = n THEN Ok(<<>>)
  ELSE LET x == TupleGet(data, i) IN
       IF x.exc # "none" THEN x
       ELSE LET r == ReadData(data, i + 1, n) IN
            IF r.exc # "none" THEN r ELSE Ok(<<x.val>> \o r.val)

\* One branch of the if/elif chain: unpack_from past the tag byte, then the print.
Branch(tag, fmt, b, n) ==
  LET data == StructUnpackFrom(fmt, b, 1) IN
  IF data.exc # "none" THEN [exc |-> data.exc, out |-> <<>>]
  ELSE LET vals == ReadData(data.val, 0, n) IN
       IF vals.exc # "none" THEN [exc |-> vals.exc, out |-> <<>>]
       ELSE [exc |-> "none", out |-> <<EventLine(tag, vals.val)>>]

\* ReceiverLayout with the price_update branch one text slot short.
ReceiverLayoutDrifted(tag) ==
  CASE tag = 1 -> Fmt_3s
    [] tag = 2 -> Fmt_ssisf
    [] tag = 3 -> Tail(Fmt_ssff)

\* The format string each branch passes to unpack_from.
ReceiverLayout(tag) ==
  CASE tag = 1 -> Fmt_3s
    [] tag = 2 -> Fmt_ssisf
    [] tag = 3 -> Fmt_ssff

\* How many items of data the print of each branch reads.
PrintReads(tag) ==
  CASE tag = 1 -> 3
    [] tag = 2 -> 5
    [] tag = 3 -> 4

\* The if/elif chain on the value v of log_type_int: the branch taken, 0 for
\* the else.
TakenBranch(v) ==
  IF PyEq(v, PyInt(1)) THEN 1
  ELSE IF PyEq(v, PyInt(2)) THEN 2
  ELSE IF PyEq(v, PyInt(3)) THEN 3
  ELSE 0

\* Iteration as it would be with the payload unpacked, under the match layout,
\* before the tag is looked at.
IterationUnpackFirst(b) ==
  LET r == Branch(2, ReceiverLayout(2), b, PrintReads(2)) IN
  [exc |-> r.exc, out |-> r.out, tag |-> Unbound, layout |-> ReceiverLayout(2)]

\* The body of the receiver loop for a non-empty buffer: what it prints, the
\* exception it ends with, if any, the value it assigns to log_type_int
\* (Unbound when the assignment raised) and the format it unpacked the bytes
\* after the tag with (<<>> when it unpacked none).
Iteration(b) ==
  LET t == BufferUnpack(Fmt_B, b) IN
  IF t.exc # "none"
  THEN [exc |-> t.exc, out |-> <<>>, tag |-> Unbound, layout |-> <<>>]
  ELSE LET br == TakenBranch(t.val) IN
       IF br = 0
       THEN [exc |-> "none", out |-> <<ErrorLine>>, tag |-> t.val, layout |-> <<>>]
       ELSE LET r == Branch(br, ReceiverLayout(br), b, PrintReads(br)) IN
            [exc |-> r.exc, out |-> r.out, tag |-> t.val, layout |-> ReceiverLayout(br)]

\* ------------------------------------------------------------------------
\* What a client other than sender.py may write on the connection
\* ------------------------------------------------------------------------

\* str.encode() of a text value; other values are left as they are.
Encode(v) == IF v.kind = "str" THEN PyBytes(v.val) ELSE v

\* The frame of the log layout '!B3s' (sender.py:52, receiver.py:48): the tag
\* and the three bytes the receiver reads at offset 1. It is no frame of
\* sender.py's own call, which gives four values to two items and raises
\* whatever their types; a client that follows the layout writes it.
FrameLog == StructPack(Fmt_B3s, <<PyInt(1), PyBytes(LogTypeChars("log"))>>).val

\* The frames the sender's calls for a match and a price update give when
\* their text arguments are bytes.
FrameMatch ==
  StructPack(Fmt_Bssisf, <<PyInt(2), PyBytes(LogTypeChars("match")), Encode(mock_data[4].side),
                           mock_data[4].quantity, Encode(mock_data[4].symbol),
                           mock_data[4].price>>).val

FramePriceUpdate ==
  StructPack(Fmt_Bssff, <<PyInt(3), PyBytes(LogTypeChars("price_update")),
                          Encode(mock_data[3].symbol), mock_data[3].old_price,
                          mock_data[3].new_price>>).val

\* A frame whose first byte is no tag.
FrameUnknownTag == <<9, 0, 0, 0>>

\* The length-prefixed frame of the match event BUY 100 AAPL 172.34:
\* 02 0003 0004 00000064 <f32 172.34> "BUY" "AAPL".
FrameLengthPrefixed ==
  <<2, 0, 3, 0, 4, 0, 0, 0, 100>> \o mock_data[4].price.f32
    \o mock_data[4].side.val \o mock_data[4].symbol.val

ClientFrames == {FrameLog, FrameMatch, FramePriceUpdate, FrameUnknownTag, FrameLengthPrefixed}

\* ------------------------------------------------------------------------
\* State
\* ------------------------------------------------------------------------

VARIABLES
  peer,              \* which client is run against the receiver: "sender" or "other"
  s_pc,              \* sender: "connect", "loop", "crashed"
  random_log_event,  \* sender: index in scripts.py's mock_data of the event chosen last (0: none yet)
  s_buffer,          \* sender: the local name buffer (Unbound, or a bytes value)
  s_packerr,         \* sender: what the last struct.pack raised ("none" if nothing)
  s_out,             \* sender: the error lines printed
  s_exc,             \* sender: the exception that ended main ("none" while running)
  s_iter,            \* sender: iterations of the loop made
  s_sent,            \* sender: the bytes the last iteration passed to the connection
  s_events,          \* sender: the indices of the events chosen so far, in order
  o_writes,          \* other client: the writes made
  c_state,           \* the client's end of the connection: "unconnected", "connected", "closed"
  wire,              \* bytes written by the client and not yet received
  written,           \* every byte the client has written, in order
  frames,            \* the whole frames the client has written, in order
  partial,           \* the client's last write was a proper prefix of a frame
  r_pc,              \* receiver: "bind", "listen", "accept", "recv", "done", "crashed"
  r_bound,           \* receiver: bind succeeded
  buffer,            \* receiver: what the last recv returned
  r_out,             \* receiver: the lines printed by the loop and by bind's handler
  r_exc,             \* receiver: the exception that ended main ("none" otherwise)
  log_type_int,      \* receiver: the local name log_type_int (Unbound, or a value)
  r_layout,          \* receiver: the format the last iteration unpacked with (<<>>: none)
  chunks,            \* receiver: the lengths of the non-empty chunks received
  m_pc,              \* monitor: "idle", or "running" inside a call of leos_func
  num_of_logs,       \* monitor: the argument of the call of leos_func (0: no call yet)
  m_i,               \* monitor: iterations of the for loop made in the call
  m_event,           \* monitor: index in scripts.py's mock_data of the event chosen last (0: none yet)
  m_base,            \* monitor: the pushes made before the call started
  update_log,        \* monitor: the events pushed to update_log, in order
  matches_log,       \* monitor: the events pushed to matches_log, in order
  systems_log        \* monitor: the events pushed to systems_log, in order

vars == << peer, s_pc, random_log_event, s_buffer, s_packerr, s_out, s_exc, s_iter, s_sent,
           s_events,
           o_writes, c_state, wire, written, frames, partial,
           r_pc, r_bound, buffer, r_out, r_exc, log_type_int, r_layout, chunks,
           m_pc, num_of_logs, m_i, m_event, m_base, update_log, matches_log, systems_log >>

senderVars == << s_pc, random_log_event, s_buffer, s_packerr, s_out, s_exc, s_iter, s_sent,
                s_events >>

monitorVars == << m_pc, num_of_logs, m_i, m_event, m_base, update_log, matches_log,
                 systems_log >>

receiverVars == << r_pc, r_bound, buffer, r_out, r_exc, log_type_int, r_layout, chunks >>

Init ==
  /\ peer \in {"sender", "other"}
  /\ s_pc = "connect"
  /\ random_log_event = 0
  /\ s_buffer = Unbound
  /\ s_packerr = "none"
  /\ s_out = <<>>
  /\ s_exc = "none"
  /\ s_iter = 0
  /\ s_sent = <<>>
  /\ s_events = <<>>
  /\ o_writes = 0
  /\ c_state = "unconnected"
  /\ wire = <<>>
  /\ written = <<>>
  /\ frames = <<>>
  /\ partial = FALSE
  /\ r_pc = "bind"
  /\ r_bound = FALSE
  /\ buffer = <<>>
  /\ r_out = <<>>
  /\ r_exc = "none"
  /\ log_type_int = Unbound
  /\ r_layout = <<>>
  /\ chunks = <<>>
  /\ m_pc = "idle"
  /\ num_of_logs = 0
  /\ m_i = 0
  /\ m_event = 0
  /\ m_base = 0
  /\ update_log = <<>>
  /\ matches_log = <<>>
  /\ systems_log = <<>>

\* The receiver's socket is bound to port 12345 and listening with its one
\* connection still to accept: a connect succeeds.
Listening == r_pc = "accept" /\ r_bound

\* The receiver has left the with-blocks: its end of the connection is closed.
ReceiverGone == r_pc \in {"done", "crashed"}

\* ------------------------------------------------------------------------
\* sender.py main
\* ------------------------------------------------------------------------

\* s.connect(('localhost', 12345)); a socket.error is printed and main goes on.
SenderConnect ==
  /\ peer = "sender"
  /\ s_pc = "connect"
  /\ s_pc' = "loop"
  /\ c_state' = IF Listening THEN "connected" ELSE c_state
  /\ s_out' = IF Listening THEN s_out
              ELSE Append(s_out, "Error: Cannot connect to a TCP stream.")
  /\ UNCHANGED << peer, random_log_event, s_buffer, s_packerr, s_exc, s_iter, s_sent, s_events,
                  o_writes, wire, written, frames, partial >>
  /\ UNCHANGED receiverVars
  /\ UNCHANGED monitorVars

\* One iteration of while True with random.choice(mock_data) = mock_data[i]:
\* the pack of the event's branch (a struct.error is printed and leaves buffer
\* as it was), then s.sendall(buffer). Reading buffer while it is unbound
\* raises UnboundLocalError, which nothing catches: main ends and the socket's
\* with-block closes the connection. A socket.error of sendall is printed:
\* sendall fails on a socket that never connected; once the receiver has
\* ended it may still return (the bytes are buffered and lost) or fail, as
\* the peer's reset has or has not arrived.
SenderLoop(i) ==
  LET p == PackEvent(mock_data[i])
      buf == IF p.exc = "none" THEN PyBytes(p.val) ELSE s_buffer
      out == IF p.exc = "none" THEN s_out
             ELSE Append(s_out, "Error: Cannot pack data into buffer.")
      sendOutcomes == IF c_state # "connected" THEN {FALSE}
                      ELSE IF ReceiverGone THEN BOOLEAN ELSE {TRUE}
  IN
  /\ peer = "sender"
  /\ s_pc = "loop"
  /\ s_iter < MaxIter
  /\ s_iter' = s_iter + 1
  /\ random_log_event' = i
  /\ s_events' = Append(s_events, i)
  /\ s_packerr' = p.exc
  /\ s_buffer' = buf
  /\ IF buf = Unbound
     THEN /\ s_exc' = "UnboundLocalError"
          /\ s_pc' = "crashed"
          /\ c_state' = IF c_state = "connected" THEN "closed" ELSE c_state
          /\ s_out' = out
          /\ s_sent' = <<>>
          /\ UNCHANGED << wire, written, frames >>
     ELSE /\ UNCHANGED << s_exc, s_pc, c_state >>
          /\ \E canSend \in sendOutcomes :
               /\ s_out' = IF canSend THEN out ELSE Append(out, "Error: Cannot send buffer.")
               /\ s_sent' = IF canSend THEN buf.val ELSE <<>>
               /\ wire' = IF canSend THEN wire \o buf.val ELSE wire
               /\ written' = IF canSend THEN written \o buf.val ELSE written
               /\ frames' = IF canSend THEN Append(frames, buf.val) ELSE frames
  /\ UNCHANGED << peer, o_writes, partial >>
  /\ UNCHANGED receiverVars
  /\ UNCHANGED monitorVars

\* ------------------------------------------------------------------------
\* A client other than sender.py
\* ------------------------------------------------------------------------

OtherConnect ==
  /\ peer = "other"
  /\ c_state = "unconnected"
  /\ Listening
  /\ c_state' = "connected"
  /\ UNCHANGED << peer, o_writes, wire, written, frames, partial >>
  /\ UNCHANGED senderVars
  /\ UNCHANGED receiverVars
  /\ UNCHANGED monitorVars

\* The client writes the first n bytes of frame f: the whole frame, or a proper
\* prefix of it, after which it writes no more.
OtherWrite(f, n) ==
  /\ peer = "other"
  /\ c_state = "connected"
  /\ ~partial
  /\ o_writes < MaxWrites
  /\ o_writes' = o_writes + 1
  /\ wire' = wire \o Take(f, n)
  /\ written' = written \o Take(f, n)
  /\ frames' = IF n = Len(f) THEN Append(frames, f) ELSE frames
  /\ partial' = (n < Len(f))
  /\ UNCHANGED << peer, c_state >>
  /\ UNCHANGED senderVars
  /\ UNCHANGED receiverVars
  /\ UNCHANGED monitorVars

OtherClose ==
  /\ peer = "other"
  /\ c_state = "connected"
  /\ c_state' = "closed"
  /\ UNCHANGED << peer, o_writes, wire, written, frames, partial >>
  /\ UNCHANGED senderVars
  /\ UNCHANGED receiverVars
  /\ UNCHANGED monitorVars

\* ------------------------------------------------------------------------
\* receiver.py main
\* ------------------------------------------------------------------------

\* s.bind(('localhost', 12345)); a socket.error is printed and main goes on.
RecvBind(ok) ==
  /\ r_pc = "bind"
  /\ r_pc' = "listen"
  /\ r_bound' = ok
  /\ r_out' = IF ok THEN r_out
              ELSE Append(r_out, [line |-> "error", text |-> "Error: Cannot bind to a TCP stream."])
  /\ UNCHANGED << buffer, r_exc, log_type_int, r_layout, chunks >>
  /\ UNCHANGED << peer, o_writes, c_state, wire, written, frames, partial >>
  /\ UNCHANGED senderVars
  /\ UNCHANGED monitorVars

\* s.listen(1)
RecvListen ==
  /\ r_pc = "listen"
  /\ r_pc' = "accept"
  /\ UNCHANGED << r_bound, buffer, r_out, r_exc, log_type_int, r_layout, chunks >>
  /\ UNCHANGED << peer, o_writes, c_state, wire, written, frames, partial >>
  /\ UNCHANGED senderVars
  /\ UNCHANGED monitorVars

\* conn, addr = s.accept(): returns once a client has connected.
RecvAccept ==
  /\ r_pc = "accept"
  /\ c_state \in {"connected", "closed"}
  /\ r_pc' = "recv"
  /\ UNCHANGED << r_bound, buffer, r_out, r_exc, log_type_int, r_layout, chunks >>
  /\ UNCHANGED << peer, o_writes, c_state, wire, written, frames, partial >>
  /\ UNCHANGED senderVars
  /\ UNCHANGED monitorVars

\* One iteration of while True in which recv returns k > 0 bytes: any number
\* from 1 to buffer_size of those in flight. The body then runs on them.
RecvLoop(k) ==
  LET b == Take(wire, k)
      it == Iteration(b)
  IN
  /\ r_pc = "recv"
  /\ k >= 1
  /\ k <= Min2(buffer_size, Len(wire))
  /\ wire' = Drop(wire, k)
  /\ buffer' = b
  /\ chunks' = Append(chunks, k)
  /\ r_out' = r_out \o it.out
  /\ r_exc' = it.exc
  /\ log_type_int' = IF it.tag = Unbound THEN log_type_int ELSE it.tag
  /\ r_layout' = it.layout
  /\ r_pc' = IF it.exc = "none" THEN "recv" ELSE "crashed"
  /\ UNCHANGED r_bound
  /\ UNCHANGED << peer, o_writes, c_state, written, frames, partial >>
  /\ UNCHANGED senderVars
  /\ UNCHANGED monitorVars

\* The iteration in which recv returns b'': the client has closed and nothing
\* is in flight. if not buffer: break.
RecvEnd ==
  /\ r_pc = "recv"
  /\ wire = <<>>
  /\ c_state = "closed"
  /\ buffer' = <<>>
  /\ r_pc' = "done"
  /\ UNCHANGED << r_bound, r_out, r_exc, log_type_int, r_layout, chunks >>
  /\ UNCHANGED << peer, o_writes, c_state, wire, written, frames, partial >>
  /\ UNCHANGED senderVars
  /\ UNCHANGED monitorVars

\* ------------------------------------------------------------------------
\* Monitoring: app.py page (the timer) and scripts.py leos_func
\* ------------------------------------------------------------------------

\* scripts.py keeps its own copy of the nine mock events, the same list as
\* sender.py's.
scripts_mock_data == mock_data

\* random.randint(1, 5): the range of the argument the timer gives leos_func.
MinLogs == 1

MaxLogs == 5

\* Every push made so far, over the three logs.
TotalPushes == Len(update_log) + Len(matches_log) + Len(systems_log)

networkVars == << peer, o_writes, c_state, wire, written, frames, partial >>

\* The timer fires: leos_func(n, update_log, matches_log, systems_log) starts.
LeosCall(n) ==
  /\ m_pc = "idle"
  /\ TotalPushes + n <= MaxPushes
  /\ m_pc' = "running"
  /\ num_of_logs' = n
  /\ m_i' = 0
  /\ m_base' = TotalPushes
  /\ UNCHANGED << m_event, update_log, matches_log, systems_log >>
  /\ UNCHANGED networkVars
  /\ UNCHANGED senderVars
  /\ UNCHANGED receiverVars

\* LeosPush with the elif taken for a plain if: a log event, pushed to
\* systems_log, then falls into the second statement's else as well.
LeosPushIfForElif(i) ==
  /\ m_pc = "running"
  /\ m_i < num_of_logs
  /\ m_event' = i
  /\ m_i' = m_i + 1
  /\ m_pc' = IF m_i + 1 = num_of_logs THEN "idle" ELSE "running"
  /\ systems_log' = IF scripts_mock_data[i].type = "log" THEN Append(systems_log, i) ELSE systems_log
  /\ matches_log' = IF scripts_mock_data[i].type = "match" THEN Append(matches_log, i) ELSE matches_log
  /\ update_log' = IF scripts_mock_data[i].type # "match" THEN Append(update_log, i) ELSE update_log
  /\ UNCHANGED << num_of_logs, m_base >>
  /\ UNCHANGED networkVars
  /\ UNCHANGED senderVars
  /\ UNCHANGED receiverVars

\* One iteration of the for loop with random.choice(mock_data) = scripts_mock_data[i]:
\* the event is pushed to systems_log if its type is "log", to matches_log if
\* it is "match", to update_log otherwise. The call ends after num_of_logs
\* iterations.
LeosPush(i) ==
  /\ m_pc = "running"
  /\ m_i < num_of_logs
  /\ m_event' = i
  /\ m_i' = m_i + 1
  /\ m_pc' = IF m_i + 1 = num_of_logs THEN "idle" ELSE "running"
  /\ systems_log' = IF scripts_mock_data[i].type = "log" THEN Append(systems_log, i) ELSE systems_log
  /\ matches_log' = IF scripts_mock_data[i].type # "log" /\ scripts_mock_data[i].type = "match"
                     THEN Append(matches_log, i) ELSE matches_log
  /\ update_log' = IF scripts_mock_data[i].type # "log" /\ scripts_mock_data[i].type # "match"
                    THEN Append(update_log, i) ELSE update_log
  /\ UNCHANGED << num_of_logs, m_base >>
  /\ UNCHANGED networkVars
  /\ UNCHANGED senderVars
  /\ UNCHANGED receiverVars

MonitorNext ==
  \/ \E n \in MinLogs..MaxLogs : LeosCall(n)
  \/ \E i \in 1..Len(scripts_mock_data) : LeosPush(i)

SpecMonitor == Init /\ [][MonitorNext]_vars

Next ==
  \/ SenderConnect
  \/ \E i \in 1..Len(mock_data) : SenderLoop(i)
  \/ OtherConnect
  \/ \E f \in ClientFrames : \E n \in 1..Len(f) : OtherWrite(f, n)
  \/ OtherClose
  \/ \E ok \in BOOLEAN : RecvBind(ok)
  \/ RecvListen
  \/ RecvAccept
  \/ \E k \in 1..buffer_size : RecvLoop(k)
  \/ RecvEnd

Spec == Init /\ [][Next]_vars

\* ------------------------------------------------------------------------
\* Vocabulary of the properties
\* ------------------------------------------------------------------------

\* The event lines among the lines printed.
Events(out) == SelectSeq(out, LAMBDA l : l.line = "event")

\* The frames of the three layouts the two programs share.
SenderFrames == {FrameLog, FrameMatch, FramePriceUpdate}

\* The receiver has nothing left to do with what was written so far: it is
\* blocked in recv with nothing in flight, or it has left the loop.
ReceiverAtRest == (r_pc = "recv" /\ wire = <<>>) \/ ReceiverGone

\* Every byte written has been handed to the receiver.
AllDelivered == wire = <<>> /\ chunks # <<>>

\* The event the receiver is to print for event e of the sender: the branch of
\* e's tag, and the fields in the order the sender packs them, text as bytes.
Expected(e) ==
  CASE e.type = "log" ->
         EventLine(1, <<PyBytes(LogTypeChars("log")), Encode(e.level), Encode(e.message)>>)
    [] e.type = "match" ->
         EventLine(2, <<PyBytes(LogTypeChars("match")), Encode(e.side), e.quantity,
                        Encode(e.symbol), e.price>>)
    [] e.type = "price_update" ->
         EventLine(3, <<PyBytes(LogTypeChars("price_update")), Encode(e.symbol),
                        e.old_price, e.new_price>>)

\* The receiver's branch for tag, applied to the bytes b.
BranchOf(tag, b) == Branch(tag, ReceiverLayout(tag), b, PrintReads(tag))

\* The fields of event e fit the wire: each text is at most 65535 bytes long
\* and the quantity is a non-negative number below 2^31.
TextFields(e) ==
  CASE e.type = "log" -> {e.level, e.message}
    [] e.type = "match" -> {e.side, e.symbol}
    [] e.type = "price_update" -> {e.symbol}

InRange(e) ==
  /\ \A x \in TextFields(e) : Len(x.val) <= 65535
  /\ e.type = "match" => (e.quantity.val >= 0 /\ e.quantity.val <= 2147483647)

\* ------------------------------------------------------------------------
\* C1..C10
\* ------------------------------------------------------------------------

\* C1 (chunking invariance): when a client has written one frame of a sender
\* layout and the receiver has received all its bytes, in however many chunks,
\* the receiver has printed exactly one event, the one the body of its loop
\* gives for the whole frame.
C1_ChunkingInvariance ==
  (Len(frames) = 1 /\ frames[1] \in SenderFrames /\ written = frames[1]
     /\ AllDelivered /\ ReceiverAtRest)
    => (Len(Events(r_out)) = 1 /\ Events(r_out) = Iteration(frames[1]).out)

\* C2 (multi-frame ordering): with sender.py as the client, once nothing is in
\* flight and the receiver is at rest, the events the receiver has printed are
\* the events the sender chose, in the same order.
C2_MultiFrameOrdering ==
  (peer = "sender" /\ c_state # "unconnected" /\ wire = <<>>
     /\ r_pc \in {"recv", "done", "crashed"})
    => Events(r_out) = [j \in 1..Len(s_events) |-> Expected(mock_data[s_events[j]])]

\* C3 (round trip): the bytes the sender packs for the chosen event, unpacked
\* by the receiver's branch for the event's tag, give the event back field for
\* field.
C3_RoundTrip ==
  (random_log_event # 0 /\ c_state # "unconnected") =>
    LET e == mock_data[random_log_event] IN
    /\ s_packerr = "none"
    /\ s_buffer # Unbound
    /\ BranchOf(log_type_to_num[e.type], s_buffer.val).exc = "none"
    /\ BranchOf(log_type_to_num[e.type], s_buffer.val).out = <<Expected(e)>>

\* C4 (unknown tag): when the first byte of the chunk the receiver has just
\* read is not 1, 2 or 3, the receiver has reported a protocol error (the
\* "log type is invalid" line, or a protocol error raised) and has left the
\* loop.
C4_UnknownTagAborts ==
  (chunks # <<>> /\ buffer # <<>> /\ buffer[1] \notin {1, 2, 3})
    => /\ (\E j \in 1..Len(r_out) : r_out[j] = ErrorLine) \/ r_exc = "ProtocolError"
       /\ r_pc # "recv"

\* C5 (truncated stream): when the client has closed after a proper prefix of
\* a frame and the receiver has come to rest, the receiver has ended with an
\* incomplete-frame error (raised as such, or as the struct.error of an unpack
\* on too few bytes) and has printed one event per whole frame, none for the
\* prefix.
C5_TruncatedStream ==
  (peer = "other" /\ partial /\ c_state = "closed" /\ chunks # <<>> /\ ReceiverAtRest
     /\ \A j \in 1..Len(frames) : frames[j] \in SenderFrames)
    => /\ r_exc \in {"IncompleteFrameError", "struct.error"}
       /\ Len(Events(r_out)) = Len(frames)

\* C6 (nothing is sent for an event whose encoding failed): after an iteration
\* of the sender loop whose struct.pack raised, the bytes that iteration passed
\* to the connection are none.
C6_NothingSentOnPackError ==
  (s_iter >= 1 /\ s_packerr # "none") => s_sent = <<>>

\* C6, its case: the sender was connected, its pack raised struct.error, and the
\* iteration ended with nothing written.
C6_Witness ==
  /\ s_iter = 1
  /\ s_packerr = "struct.error"
  /\ s_exc = "UnboundLocalError"
  /\ c_state = "closed"
  /\ written = <<>>

\* C7 (length-prefixed layout): the iteration that chose the match event
\* BUY 100 AAPL 172.34 has written 02 0003 0004 00000064 <f32 172.34> BUY AAPL.
C7_LengthPrefixedLayout ==
  (random_log_event = 4 /\ c_state # "unconnected") => s_sent = FrameLengthPrefixed

\* C8 (exactly once): on a connection that is open, once every byte of the
\* whole frames written has been received and the receiver is at rest, it has
\* printed one event per frame.
C8_ExactlyOnce ==
  (c_state = "connected" /\ ~partial /\ AllDelivered /\ ReceiverAtRest
     /\ \A j \in 1..Len(frames) : frames[j] \in SenderFrames)
    => Len(Events(r_out)) = Len(frames)

\* C9 (encoding rejects out-of-range fields, and only those): the pack of the
\* chosen event raised exactly when a field of the event is out of range.
C9_EncodeRejectsOutOfRange ==
  (random_log_event # 0 /\ c_state # "unconnected") =>
    ((s_packerr = "none") <=> InRange(mock_data[random_log_event]))

\* C10 (clean end of stream): when the client has closed after whole frames
\* only and the receiver has left the loop, it left by the break, with no
\* exception and no error line, and has printed one event per frame.
C10_CleanEndOfStream ==
  (c_state = "closed" /\ ~partial /\ wire = <<>> /\ ReceiverGone
     /\ \A j \in 1..Len(frames) : frames[j] \in SenderFrames)
    => /\ r_pc = "done"
       /\ r_exc = "none"
       /\ \A j \in 1..Len(r_out) : r_out[j].line # "error" \/ r_out[j].text # ErrorLine.text
       /\ Len(Events(r_out)) = Len(frames)

\* ------------------------------------------------------------------------
\* C11..C18
\* ------------------------------------------------------------------------

\* The bytes the receiver has been handed so far.
Received == Take(written, Len(written) - Len(wire))

RECURSIVE SumLen(_)
SumLen(fs) == IF fs = <<>> THEN 0 ELSE Len(Head(fs)) + SumLen(Tail(fs))

RECURSIVE Sum(_)
Sum(ns) == IF ns = <<>> THEN 0 ELSE Head(ns) + Sum(Tail(ns))

\* The offsets in the stream at which a frame written whole starts, and the
\* offset at which the next one is to start.
FrameStarts == { SumLen(Take(frames, j)) : j \in 0..Len(frames) }

\* The offsets in the stream of the bytes the loop has taken for a tag: the
\* first byte of each chunk.
TagOffsets == { Sum(Take(chunks, j - 1)) : j \in 1..Len(chunks) }

\* C11 (a transport failure terminates the connection): a sender whose connect
\* failed writes nothing, and a receiver whose bind failed does not go on to
\* listen and accept.
C11_TransportFailureTerminates ==
  /\ (peer = "sender" /\ s_pc # "connect" /\ c_state = "unconnected") => written = <<>>
  /\ (r_pc # "bind" /\ ~r_bound) => r_pc = "listen"

\* C12 (no incomplete unit is interpreted): while what the receiver has been
\* handed is a proper prefix of the first frame, the receiver holds those bytes,
\* has raised nothing and printed nothing, and is waiting for the rest.
C12_NoIncompleteUnit ==
  (Len(frames) >= 1 /\ frames[1] \in SenderFrames /\ chunks # <<>>
     /\ Len(Received) < Len(frames[1]))
    => /\ r_pc = "recv"
       /\ r_exc = "none"
       /\ r_out = <<>>
       /\ buffer = Received

\* C13 (frame alignment): every byte the loop has taken for a tag is the first
\* byte of a frame, and once the receiver has been handed a whole number of
\* frames it is back at the top of its loop, waiting for the next tag.
C13_FrameAlignment ==
  (chunks # <<>> /\ ~partial /\ \A j \in 1..Len(frames) : frames[j] \in SenderFrames)
    => /\ TagOffsets \subseteq FrameStarts
       /\ Len(Received) \in FrameStarts => r_pc = "recv"

\* The tag byte of the last chunk has been read into log_type_int and is 1, 2
\* or 3.
TagReadValid ==
  /\ log_type_int # Unbound
  /\ log_type_int.kind = "int"
  /\ log_type_int.val \in {1, 2, 3}
  /\ buffer # <<>>
  /\ log_type_int.val = buffer[1]

\* C14 (tag before payload): an iteration that has not read a tag of 1, 2 or 3
\* from the first byte of its chunk has unpacked no payload, and an iteration
\* that has unpacked payload did it with the layout of the tag it read: the
\* sender's layout for that tag past its tag byte.
C14_TagBeforePayload ==
  chunks # <<>> =>
    /\ ~TagReadValid => r_layout = <<>>
    /\ r_layout # <<>> => r_layout = Tail(SenderLayout(log_type_int.val))

\* C14, its case: an iteration has run on a chunk that holds a whole match
\* frame; its read of the tag raised and it unpacked no payload.
C14_Witness ==
  /\ chunks # <<>>
  /\ buffer = FrameMatch
  /\ r_exc = "AttributeError"
  /\ log_type_int = Unbound
  /\ r_layout = <<>>

\* C15 (single byte order): the iteration of the sender that chose a match
\* event has written the quantity as its four big-endian bytes after the tag
\* and the two text slots, and the receiver's match branch reads the same
\* quantity back from what was written.
C15_SingleByteOrder ==
  (peer = "sender" /\ random_log_event # 0 /\ c_state # "unconnected"
     /\ mock_data[random_log_event].type = "match")
    => LET e == mock_data[random_log_event] IN
       /\ Len(s_sent) = calcsize(SenderLayout(2))
       /\ SubSeq(s_sent, 4, 7) = BE32(e.quantity.val)
       /\ BranchOf(2, s_sent).exc = "none"
       /\ BranchOf(2, s_sent).out[1].vals[3] = e.quantity

\* C16 (tag mapping): the two tables are inverse to each other, the tag the
\* sender passes to pack for the chosen event is log_type_to_num of its type, and
\* an iteration of the receiver on a whole frame of a sender layout has taken
\* the branch of the frame's tag and printed an event of that tag.
C16_TagMapping ==
  /\ \A n \in {1, 2, 3} : log_type_to_num[num_to_log_types[n]] = n
  /\ \A ty \in {"log", "match", "price_update"} : num_to_log_types[log_type_to_num[ty]] = ty
  /\ random_log_event # 0 =>
       PackArgs(mock_data[random_log_event])[1]
         = PyInt(log_type_to_num[mock_data[random_log_event].type])
  /\ (chunks # <<>> /\ buffer \in SenderFrames) =>
       /\ r_layout = ReceiverLayout(buffer[1])
       /\ r_out # <<>>
       /\ r_out[Len(r_out)].line = "event"
       /\ r_out[Len(r_out)].tag = buffer[1]

\* C17 (the layouts do not drift): for every whole frame of a sender layout
\* written, the receiver's layout for the frame's tag is the sender's layout
\* for it without the leading tag item, it covers the frame past its tag byte,
\* and one read of buffer_size bytes can hold the frame; buffer_size is at
\* least the size of each of the three layouts.
C17_LayoutsDoNotDrift ==
  /\ \A tag \in {1, 2, 3} : buffer_size >= calcsize(SenderLayout(tag))
  /\ \A j \in 1..Len(frames) :
       frames[j] \in SenderFrames =>
         LET tag == frames[j][1] IN
         /\ ReceiverLayout(tag) = Tail(SenderLayout(tag))
         /\ calcsize(ReceiverLayout(tag)) = Len(frames[j]) - 1
         /\ Len(frames[j]) <= buffer_size

\* C17, its case: a price_update frame and a match frame have been written, and
\* a read of buffer_size bytes has been filled.
C17_Witness ==
  /\ frames = <<FramePriceUpdate, FrameMatch>>
  /\ chunks # <<>>
  /\ chunks[1] = buffer_size
  /\ Len(buffer) = buffer_size

\* C18 (event routing in the monitor): every iteration of leos_func pushes
\* the chosen event to exactly one log, systems_log for a log event,
\* matches_log for a match event and update_log otherwise, and leaves the other
\* two logs as they were; the pushes made in a call are as many as its
\* iterations, and a call that has ended has made num_of_logs of them.
C18_EventRouting ==
  /\ [][ m_i' = m_i + 1 =>
           LET ty == scripts_mock_data[m_event'].type IN
           /\ ty = "log" =>
                /\ systems_log' = Append(systems_log, m_event')
                /\ UNCHANGED << matches_log, update_log >>
           /\ ty = "match" =>
                /\ matches_log' = Append(matches_log, m_event')
                /\ UNCHANGED << systems_log, update_log >>
           /\ ty \notin {"log", "match"} =>
                /\ update_log' = Append(update_log, m_event')
                /\ UNCHANGED << systems_log, matches_log >> ]_vars
  /\ [](TotalPushes - m_base = m_i)
  /\ []((m_pc = "idle" /\ num_of_logs # 0) => m_i = num_of_logs)

\* C18, its case: a call leos_func(3, ...) has ended with one event in each log.
C18_Witness ==
  /\ m_pc = "idle"
  /\ num_of_logs = 3
  /\ m_i = 3
  /\ Len(update_log) = 1
  /\ Len(matches_log) = 1
  /\ Len(systems_log) = 1

====
